---- MODULE Spec2Model ----
(***************************************************************************)
(* Comment-sentiment prediction pipeline of python/main.py:                *)
(* load_models (three pickled artifacts read at import time),              *)
(* predict_comments, and its two callers analyze_comments_batch and        *)
(* analyze_video.                                                          *)
(*                                                                         *)
(* The vectorizer, the classifier and the label encoder are opaque library *)
(* objects.  What a library call does in one request (returns or raises,   *)
(* the labels and probabilities it returns) is the record `env`, drawn     *)
(* from small sets per request.  Probabilities and confidences are whole   *)
(* percents (90 stands for 0.9, 0 for 0.0); percentages of the             *)
(* distribution are tenths of a percent (333 stands for 33.3).             *)
(***************************************************************************)
EXTENDS Integers, Sequences, FiniteSets, TLC

VARIABLES
    VECTORIZER,     \* module global, main.py:43
    MODEL,          \* module global, main.py:44
    LABEL_ENCODER,  \* module global, main.py:45
    files,          \* state of the three files under MODEL_DIR seen by load_models
    loadError,      \* TRUE when load_models printed "Model load error:"
    pc,             \* "start" | "idle" | "responded"
    handler,        \* endpoint of the request in flight
    comments,       \* the batch the request in flight hands to the pipeline
    env,            \* behaviour of the library calls during the request in flight
    out,            \* outcome of the predict_comments call of the request in flight
    resp            \* HTTP response of the request in flight

request == <<handler, comments, env, out, resp>>
vars == <<VECTORIZER, MODEL, LABEL_ENCODER, files, loadError, pc,
          handler, comments, env, out, resp>>

----------------------------------------------------------------------------
\* Bounds

MaxBatch == 3       \* longest comment batch
NumLabels == 2      \* number of label codes the classifier can predict

Texts == {"a", "b"}                 \* non-empty comment strings
Labels == 0 .. (NumLabels - 1)      \* internal label codes
ClassNames == {"positive", "1"}     \* display names a label encoder may hold
ProbRows == {<<10, 90>>, <<50, 50>>} \* per-row class probabilities, in percent

None == "None"
Raises == "raises"
Exceptions == {"RuntimeError", "ValueError"}

SeqsUpTo(S, n) == UNION {[1 .. k -> S] : k \in 0 .. n}

----------------------------------------------------------------------------
\* load_models

ArtifactNames == {"vectorizer", "model", "label_encoder"}
FileStates == {"missing", "ok", "corrupt"}

\* One `if os.path.exists(p): with open(p) as f: G = pickle.load(f)` step.
\* st is the state so far: the three globals and whether an exception is
\* propagating to the except clause.
LoadStep(st, name, fs, value) ==
    IF st.raised THEN st
    ELSE IF fs[name] = "missing" THEN st
    ELSE IF fs[name] = "corrupt" THEN [st EXCEPT !.raised = TRUE]
    ELSE [st EXCEPT !.globals[name] = value]

\* The try body of load_models: the three steps run in sequence inside one
\* try block, so an exception in one step skips the steps after it.
load_models(fs) ==
    LET s0 == [globals |-> [n \in ArtifactNames |-> None], raised |-> FALSE]
        s1 == LoadStep(s0, "vectorizer", fs, "TfidfVectorizer")
        s2 == LoadStep(s1, "model", fs, "RandomForestClassifier")
        s3 == LoadStep(s2, "label_encoder", fs, "LabelEncoder")
    IN  s3

LoadModels(fs) ==
    /\ pc = "start"
    /\ LET s == load_models(fs)
       IN  /\ VECTORIZER' = s.globals["vectorizer"]
           /\ MODEL' = s.globals["model"]
           /\ LABEL_ENCODER' = s.globals["label_encoder"]
           /\ loadError' = s.raised
    /\ files' = fs
    /\ pc' = "idle"
    /\ UNCHANGED request

----------------------------------------------------------------------------
\* str(label) for a non-negative integer label

Digits == <<"0", "1", "2", "3", "4", "5", "6", "7", "8", "9">>

RECURSIVE Str(_)
Str(n) == IF n < 10 THEN Digits[n + 1]
          ELSE Str(n \div 10) \o Digits[(n % 10) + 1]

----------------------------------------------------------------------------
\* Library behaviour during one request

\* A label encoder maps a label code to a display name or raises on it; no
\* two codes have the same name.
Decoders ==
    {d \in [Labels -> ClassNames \cup {Raises}] :
        \A l1, l2 \in Labels : (l1 # l2 /\ d[l1] # Raises) => d[l1] # d[l2]}

NoDecoder == [l \in Labels |-> Raises]

\* env.transform, env.predict: "ok" or the exception class the call raises.
\* env.preds: the label predict returns for each row.
\* env.proba: "absent" (no predict_proba attribute), "raises" or "ok";
\* env.probs: the probability row predict_proba returns for each row.
\* env.dec: what inverse_transform does on each label code.
NoEnv == [transform |-> "ok", predict |-> "ok", preds |-> <<>>,
          proba |-> "absent", probs |-> <<>>, dec |-> NoDecoder]

\* The behaviour that stands for the calls a request does not reach.
QuietEnv(n) == [NoEnv EXCEPT !.preds = [i \in 1 .. n |-> 0]]

\* The behaviours that a batch of n rows can meet.  Only the calls the
\* request reaches are drawn: nothing when an artifact needed by the guard of
\* predict_comments is unset, nothing after a call that raises, no decoder
\* behaviour when no label encoder is loaded.
Envs(n) ==
    IF VECTORIZER = None \/ MODEL = None THEN {QuietEnv(n)}
    ELSE {[QuietEnv(n) EXCEPT !.transform = x] : x \in Exceptions}
         \cup {[QuietEnv(n) EXCEPT !.predict = x] : x \in Exceptions}
         \cup {[transform |-> "ok", predict |-> "ok", preds |-> p,
                proba |-> pb.kind, probs |-> pb.rows, dec |-> d] :
                p \in [1 .. n -> Labels],
                pb \in {[kind |-> "absent", rows |-> <<>>],
                        [kind |-> "raises", rows |-> <<>>]}
                       \cup {[kind |-> "ok", rows |-> r] : r \in [1 .. n -> ProbRows]},
                d \in IF LABEL_ENCODER = None THEN {NoDecoder} ELSE Decoders}

----------------------------------------------------------------------------
\* predict_comments

Call(fn, arg) == [fn |-> fn, arg |-> arg]

Raise(exc, msg, calls) ==
    [called |-> TRUE, exc |-> exc, msg |-> msg, ret |-> None, calls |-> calls]

Return(ret, calls) ==
    [called |-> TRUE, exc |-> None, msg |-> "", ret |-> ret, calls |-> calls]

NotCalled ==
    [called |-> FALSE, exc |-> None, msg |-> "", ret |-> None, calls |-> <<>>]

\* max(row) of a non-empty row
Max(row) == CHOOSE x \in {row[j] : j \in DOMAIN row} :
                \A y \in {row[j] : j \in DOMAIN row} : y <= x

\* The guard with `and` for `or`.
ModelsNotLoadedBoth == VECTORIZER = None /\ MODEL = None

\* The guard of predict_comments.
ModelsNotLoaded == VECTORIZER = None \/ MODEL = None

\* probs after the try/except around MODEL.predict_proba(X)
PredictProba(e) ==
    IF e.proba = "ok" THEN [isNone |-> FALSE, rows |-> e.probs]
    ELSE [isNone |-> TRUE, rows |-> <<>>]

\* The confidence taken from the first class instead of the largest.
ConfidenceFirst(probs, i) ==
    IF ~probs.isNone THEN probs.rows[i][1] ELSE 0

\* confidence of row i
Confidence(probs, i) ==
    IF ~probs.isNone THEN Max(probs.rows[i]) ELSE 0

\* The except clause losing the raw label.
SentimentNoFallback(label, e) ==
    IF LABEL_ENCODER # None
    THEN IF e.dec[label] = Raises THEN "unknown" ELSE e.dec[label]
    ELSE Str(label)

\* sentiment of a row whose predicted label is label
Sentiment(label, e) ==
    IF LABEL_ENCODER # None
    THEN IF e.dec[label] = Raises THEN Str(label) ELSE e.dec[label]
    ELSE Str(label)

\* The inverse_transform call the row makes, if any.
DecodeCalls(label) ==
    IF LABEL_ENCODER # None THEN <<Call("inverse_transform", <<label>>)>>
    ELSE <<>>

\* The loop inserting each row at the front of results.
RECURSIVE BuildResultsReversed(_, _, _, _, _, _)
BuildResultsReversed(cs, preds, probs, e, i, acc) ==
    IF i > Len(cs) THEN acc
    ELSE LET label == preds[i]
             row == [comment |-> cs[i],
                     sentiment |-> Sentiment(label, e),
                     confidence |-> Confidence(probs, i)]
         IN  BuildResultsReversed(cs, preds, probs, e, i + 1,
                 [results |-> <<row>> \o acc.results,
                  calls |-> acc.calls \o DecodeCalls(label)])

\* The loop `for i, text in enumerate(comments)` from row i on; acc holds the
\* results appended and the library calls made so far.
RECURSIVE BuildResults(_, _, _, _, _, _)
BuildResults(cs, preds, probs, e, i, acc) ==
    IF i > Len(cs) THEN acc
    ELSE LET label == preds[i]
             row == [comment |-> cs[i],
                     sentiment |-> Sentiment(label, e),
                     confidence |-> Confidence(probs, i)]
         IN  BuildResults(cs, preds, probs, e, i + 1,
                 [results |-> Append(acc.results, row),
                  calls |-> acc.calls \o DecodeCalls(label)])

\* dist_counts[k] = 1: a key seen again is not counted again.
IncrementOverwrite(counts, k) ==
    [x \in DOMAIN counts \cup {k} |-> IF x = k THEN 1 ELSE counts[x]]

\* dist_counts[k] = dist_counts.get(k, 0) + 1
Increment(counts, k) ==
    [x \in DOMAIN counts \cup {k} |->
        IF x = k THEN (IF k \in DOMAIN counts THEN counts[k] ELSE 0) + 1
        ELSE counts[x]]

\* The loop `for r in results` that fills dist_counts, from row i on.
RECURSIVE DistCounts(_, _, _)
DistCounts(results, i, counts) ==
    IF i > Len(results) THEN counts
    ELSE DistCounts(results, i + 1, Increment(counts, results[i].sentiment))

\* Truncation to one decimal instead of rounding.
Round1Truncated(v, total) == (1000 * v) \div total

\* round(v / total * 100, 1) in tenths of a percent, ties to even
Round1(v, total) ==
    LET q == (1000 * v) \div total
        r == (1000 * v) % total
    IN  IF 2 * r < total THEN q
        ELSE IF 2 * r > total THEN q + 1
        ELSE IF q % 2 = 0 THEN q ELSE q + 1

RECURSIVE SumConfidence(_, _)
SumConfidence(results, i) ==
    IF i > Len(results) THEN 0
    ELSE results[i].confidence + SumConfidence(results, i + 1)

\* The aggregation and the returned dictionary.  average_confidence is the
\* quotient sum / n, kept as the pair of its terms (0 / 1 when total is 0).
Summary(results) ==
    LET dist_counts == DistCounts(results, 1, [x \in {} |-> 0])
        total == Len(results)
        dist_percent == [k \in DOMAIN dist_counts |-> Round1(dist_counts[k], total)]
        avg_conf == IF total # 0
                    THEN [sum |-> SumConfidence(results, 1), n |-> total]
                    ELSE [sum |-> 0, n |-> 1]
    IN  [count |-> total,
         results |-> results,
         distribution |-> [counts |-> dist_counts, percentages |-> dist_percent],
         average_confidence |-> avg_conf,
         model |-> MODEL]

predict_comments(cs, e) ==
    IF ModelsNotLoaded
    THEN Raise("RuntimeError", "Models not loaded on server", <<>>)
    ELSE IF e.transform # "ok"
    THEN Raise(e.transform, "transform failed", <<Call("transform", cs)>>)
    ELSE IF e.predict # "ok"
    THEN Raise(e.predict, "predict failed",
               <<Call("transform", cs), Call("predict", cs)>>)
    ELSE LET probs == PredictProba(e)
             head == <<Call("transform", cs), Call("predict", cs)>>
                     \o (IF e.proba = "absent" THEN <<>>
                         ELSE <<Call("predict_proba", cs)>>)
             loop == BuildResults(cs, e.preds, probs, e, 1,
                                  [results |-> <<>>, calls |-> head])
         IN  Return(Summary(loop.results), loop.calls)

----------------------------------------------------------------------------
\* HTTP handlers

Ok(body) == [status |-> 200, detail |-> "", body |-> body]

HTTPException(status, detail) == [status |-> status, detail |-> detail, body |-> None]

NoResponse == [status |-> 0, detail |-> "", body |-> None]

EmptySummary == [count |-> 0, results |-> <<>>]

\* The endpoint answering an empty summary when the pipeline raises.
analyze_comments_batch_swallow(cs, e) ==
    IF cs = <<>>
    THEN [out |-> NotCalled, resp |-> Ok(EmptySummary)]
    ELSE LET o == predict_comments(cs, e)
         IN  IF o.exc = None THEN [out |-> o, resp |-> Ok(o.ret)]
             ELSE IF o.exc = "RuntimeError"
             THEN [out |-> o, resp |-> HTTPException(500, o.msg)]
             ELSE [out |-> o, resp |-> Ok(EmptySummary)]

\* The endpoint without the guard on the empty batch.
analyze_comments_batch_noguard(cs, e) ==
    LET o == predict_comments(cs, e)
    IN  IF o.exc = None THEN [out |-> o, resp |-> Ok(o.ret)]
        ELSE [out |-> o, resp |-> HTTPException(500, o.msg)]

\* POST /analyze/comments/batch
analyze_comments_batch(cs, e) ==
    IF cs = <<>>
    THEN [out |-> NotCalled, resp |-> Ok(EmptySummary)]
    ELSE LET o == predict_comments(cs, e)
         IN  IF o.exc = None THEN [out |-> o, resp |-> Ok(o.ret)]
             ELSE IF o.exc = "RuntimeError"
             THEN [out |-> o, resp |-> HTTPException(500, o.msg)]
             ELSE [out |-> o, resp |-> HTTPException(500, o.msg)]

\* raw_comments[: max_comments] for max_comments >= 0
Take(raw, m) == SubSeq(raw, 1, IF m < Len(raw) THEN m ELSE Len(raw))

\* comments_texts: the non-empty texts among the first max_comments comments
CommentsTexts(raw, m) == SelectSeq(Take(raw, m), LAMBDA t : t # "")

VideoResult == [analysis |-> [sentiment |-> "neutral", keywords |-> <<>>]]

WithCommentsAnalysis(ca) ==
    [analysis |-> VideoResult.analysis, comments_analysis |-> ca]

\* POST /analyze/video; extract is what ydl.extract_info does ("ok" or
\* "raises"), flag is payload.analyze_comments, cs is comments_texts.
analyze_video(extract, flag, cs, e) ==
    IF extract # "ok"
    THEN [out |-> NotCalled, resp |-> HTTPException(400, "extract_info failed")]
    ELSE IF ~flag
    THEN [out |-> NotCalled, resp |-> Ok(VideoResult)]
    ELSE IF cs = <<>>
    THEN [out |-> NotCalled,
          resp |-> Ok(WithCommentsAnalysis(
                    [analyzed |-> 0,
                     summary |-> "Could not fetch comments from yt_dlp extractor"]))]
    ELSE LET o == predict_comments(cs, e)
         IN  IF o.exc = None
             THEN [out |-> o,
                   resp |-> Ok(WithCommentsAnalysis(
                     [analyzed |-> o.ret.count,
                      summary |-> "Comments analyzed using server ML model",
                      distribution |-> o.ret.distribution,
                      average_confidence |-> o.ret.average_confidence,
                      sample_results |-> Take(o.ret.results, 20),
                      model_used |-> o.ret.model]))]
             ELSE IF o.exc = "RuntimeError"
             THEN [out |-> o,
                   resp |-> Ok(WithCommentsAnalysis(
                     [analyzed |-> 0,
                      summary |-> "Model not available on server",
                      error |-> o.msg]))]
             \* any other exception leaves the handler; the framework answers
             ELSE [out |-> o, resp |-> HTTPException(500, "Internal Server Error")]

\* A handler dropping the classifier.
RequestFrameReset ==
    /\ MODEL' = None
    /\ UNCHANGED <<VECTORIZER, LABEL_ENCODER, files, loadError>>

\* No handler declares the artifacts global or assigns them.
RequestFrame == UNCHANGED <<VECTORIZER, MODEL, LABEL_ENCODER, files, loadError>>

AnalyzeCommentsBatch ==
    /\ pc = "idle"
    /\ \E cs \in SeqsUpTo(Texts, MaxBatch) :
         \E e \in Envs(Len(cs)) :
            LET r == analyze_comments_batch(cs, e)
            IN  /\ out' = r.out
                /\ resp' = r.resp
                /\ comments' = cs
                /\ env' = e
    /\ handler' = "analyze_comments_batch"
    /\ pc' = "responded"
    /\ RequestFrame

\* The payload is video_url (what extract_info does with it: extract),
\* analyze_comments (flag), max_comments (m); raw is info.get("comments").
AnalyzeVideo ==
    /\ pc = "idle"
    /\ \E extract \in {"ok", "raises"}, flag \in BOOLEAN,
          raw \in SeqsUpTo(Texts \cup {""}, MaxBatch), m \in 0 .. MaxBatch :
         LET cs == IF extract = "ok" /\ flag THEN CommentsTexts(raw, m) ELSE <<>>
         IN  \E e \in Envs(Len(cs)) :
                LET r == analyze_video(extract, flag, cs, e)
                IN  /\ out' = r.out
                    /\ resp' = r.resp
                    /\ comments' = cs
                    /\ env' = e
    /\ handler' = "analyze_video"
    /\ pc' = "responded"
    /\ RequestFrame

\* The response leaves the server and the locals of the handler are gone.
Reply ==
    /\ pc = "responded"
    /\ pc' = "idle"
    /\ handler' = None
    /\ comments' = <<>>
    /\ env' = NoEnv
    /\ out' = NotCalled
    /\ resp' = NoResponse
    /\ RequestFrame

----------------------------------------------------------------------------

Init ==
    /\ VECTORIZER = None
    /\ MODEL = None
    /\ LABEL_ENCODER = None
    /\ files = [n \in ArtifactNames |-> "missing"]
    /\ loadError = FALSE
    /\ pc = "start"
    /\ handler = None
    /\ comments = <<>>
    /\ env = NoEnv
    /\ out = NotCalled
    /\ resp = NoResponse

Next ==
    \/ \E fs \in [ArtifactNames -> FileStates] : LoadModels(fs)
    \/ AnalyzeCommentsBatch
    \/ AnalyzeVideo
    \/ Reply

Spec == Init /\ [][Next]_vars

----------------------------------------------------------------------------
\* Properties

\* predict_comments was called by the request in flight
Called == pc = "responded" /\ out.called

\* ... and returned a summary
Returned == Called /\ out.exc = None

\* ... with both required artifacts set and transform and predict returning
Ran == /\ Called
       /\ VECTORIZER # None
       /\ MODEL # None
       /\ env.transform = "ok"
       /\ env.predict = "ok"

NumCalls(fn) == Cardinality({i \in DOMAIN out.calls : out.calls[i].fn = fn})

RECURSIVE SumValues(_)
SumValues(f) ==
    IF DOMAIN f = {} THEN 0
    ELSE LET k == CHOOSE x \in DOMAIN f : TRUE
         IN  f[k] + SumValues([x \in DOMAIN f \ {k} |-> f[x]])

Abs(x) == IF x < 0 THEN -x ELSE x

\* C1: for a non-empty batch of N comments, with the vectorizer and the
\* classifier loaded and transform and predict returning, predict_comments
\* returns exactly N results; result i carries comment i and the sentiment
\* obtained from predicted label i (its decoded name, or its string form
\* when there is no decoder or the decoder raises on it).
C1_ResultsInInputOrder ==
    (Ran /\ comments # <<>>) =>
        /\ out.exc = None
        /\ Len(out.ret.results) = Len(comments)
        /\ \A i \in 1 .. Len(comments) :
            /\ out.ret.results[i].comment = comments[i]
            /\ out.ret.results[i].sentiment =
                 IF LABEL_ENCODER # None /\ env.dec[env.preds[i]] # Raises
                 THEN env.dec[env.preds[i]]
                 ELSE Str(env.preds[i])

\* a batch of three rows with different comments and different labels returned
C1_Witness ==
    /\ Ran
    /\ out.exc = None
    /\ Len(comments) = 3
    /\ comments[1] # comments[2]
    /\ env.preds[2] # env.preds[3]
    /\ out.ret.results[1].sentiment # out.ret.results[2].sentiment

\* C2: every returned summary has count = len(results) = the sum of
\* distribution.counts, whatever mix of decoded and fallback labels.
C2_CountInvariant ==
    Returned =>
        /\ out.ret.count = Len(out.ret.results)
        /\ out.ret.count = SumValues(out.ret.distribution.counts)

\* a decoded label and a fallback label of different codes share one key
C2_Witness ==
    /\ Returned
    /\ LABEL_ENCODER # None
    /\ \E i, j \in 1 .. Len(comments) :
        /\ env.preds[i] # env.preds[j]
        /\ env.dec[env.preds[i]] # Raises
        /\ env.dec[env.preds[j]] = Raises
        /\ out.ret.results[i].sentiment = out.ret.results[j].sentiment

\* C3: in every returned summary the percentages have the keys of the counts
\* and percentages[k] is counts[k] / count * 100 rounded to one decimal: the
\* multiple of 0.1 nearest to it.
C3_Percentages ==
    Returned =>
        LET d == out.ret.distribution
        IN  /\ DOMAIN d.percentages = DOMAIN d.counts
            /\ \A k \in DOMAIN d.counts :
                 2 * Abs(d.percentages[k] * out.ret.count - 1000 * d.counts[k])
                    <= out.ret.count

\* a summary where rounding goes up for one label and down for another
C3_Witness ==
    /\ Returned
    /\ \E k1, k2 \in DOMAIN out.ret.distribution.counts :
        /\ out.ret.distribution.percentages[k1] * out.ret.count
              > 1000 * out.ret.distribution.counts[k1]
        /\ out.ret.distribution.percentages[k2] * out.ret.count
              < 1000 * out.ret.distribution.counts[k2]

\* C4: called with the vectorizer or the classifier unset, predict_comments
\* raises the "models not loaded" RuntimeError, returns nothing and has made
\* no library call, whether or not the label decoder is loaded.
C4_NotLoadedFails ==
    (Called /\ (VECTORIZER = None \/ MODEL = None)) =>
        /\ out.exc = "RuntimeError"
        /\ out.msg = "Models not loaded on server"
        /\ Len(out.calls) = 0

\* the call with one required artifact unset and the other two loaded
C4_Witness ==
    /\ Called
    /\ VECTORIZER = None
    /\ MODEL # None
    /\ LABEL_ENCODER # None
    /\ comments # <<>>

\* C5: when the decoder raises on the label of a row, that row's sentiment
\* is the string form of the label, every row is still sent to the decoder
\* and every row it does not raise on gets its decoded name, and the call
\* returns a summary.
C5_DecodeFallback ==
    (Ran /\ LABEL_ENCODER # None) =>
        /\ out.exc = None
        /\ NumCalls("inverse_transform") = Len(comments)
        /\ \A i \in 1 .. Len(comments) :
            /\ env.dec[env.preds[i]] = Raises =>
                 out.ret.results[i].sentiment = Str(env.preds[i])
            /\ env.dec[env.preds[i]] # Raises =>
                 out.ret.results[i].sentiment = env.dec[env.preds[i]]

\* the decoder raises on the first row and decodes a later one
C5_Witness ==
    /\ Ran
    /\ LABEL_ENCODER # None
    /\ Len(comments) >= 2
    /\ env.dec[env.preds[1]] = Raises
    /\ env.dec[env.preds[2]] # Raises
    /\ out.exc = None

\* C6: when transform or predict raises, predict_comments raises that
\* exception and returns nothing; analyze_comments_batch answers 500 without
\* a body; transform and predict are each called at most once per call.
C6_BatchFailsWhole ==
    Called =>
        /\ NumCalls("transform") <= 1
        /\ NumCalls("predict") <= 1
        /\ (VECTORIZER # None /\ MODEL # None
               /\ (env.transform # "ok" \/ env.predict # "ok")) =>
            /\ out.exc = IF env.transform # "ok" THEN env.transform ELSE env.predict
            /\ handler = "analyze_comments_batch" =>
                 (resp.status = 500 /\ resp.body = None)

\* predict raised after transform returned, in the batch endpoint
C6_Witness ==
    /\ Called
    /\ handler = "analyze_comments_batch"
    /\ VECTORIZER # None
    /\ MODEL # None
    /\ env.predict # "ok"
    /\ NumCalls("transform") = 1
    /\ NumCalls("predict") = 1
    /\ resp.status = 500

\* C7: without probability output (predict_proba absent or raising) the call
\* still returns and every confidence is 0.0; with it, the confidence of a
\* row is the largest entry of the row's probabilities.
C7_Confidence ==
    Ran =>
        /\ out.exc = None
        /\ \A i \in 1 .. Len(comments) :
            LET c == out.ret.results[i].confidence
            IN  IF env.proba = "ok"
                THEN /\ \E j \in DOMAIN env.probs[i] : c = env.probs[i][j]
                     /\ \A j \in DOMAIN env.probs[i] : c >= env.probs[i][j]
                ELSE c = 0

\* predict_proba raised and a batch of two or more rows was returned
C7_Witness ==
    /\ Ran
    /\ env.proba = "raises"
    /\ Len(comments) >= 2
    /\ out.exc = None
    /\ out.ret.average_confidence.sum = 0

\* C8: after load_models, every artifact whose file exists and loads is set,
\* whatever happened to the other two files.
C8_IndependentLoad ==
    pc # "start" =>
        /\ files["vectorizer"] = "ok" => VECTORIZER # None
        /\ files["model"] = "ok" => MODEL # None
        /\ files["label_encoder"] = "ok" => LABEL_ENCODER # None

\* C9: once load_models has run, no step changes the three artifacts.
C9_ArtifactsFrozen ==
    [][pc # "start" => UNCHANGED <<VECTORIZER, MODEL, LABEL_ENCODER>>]_vars

\* a request failed inside the pipeline while the artifacts are loaded
C9_Witness ==
    /\ Called
    /\ out.exc # None
    /\ VECTORIZER # None
    /\ MODEL # None
    /\ LABEL_ENCODER # None
    /\ handler = "analyze_video"

\* C10: for an empty batch analyze_comments_batch answers 200 with
\* {count: 0, results: []} and does not call predict_comments, whether or
\* not the artifacts are loaded.
C10_EmptyBatch ==
    (pc = "responded" /\ handler = "analyze_comments_batch" /\ comments = <<>>) =>
        /\ ~out.called
        /\ resp.status = 200
        /\ resp.body = EmptySummary

\* the empty batch answered while the classifier is unset
C10_Witness ==
    /\ pc = "responded"
    /\ handler = "analyze_comments_batch"
    /\ comments = <<>>
    /\ MODEL = None
    /\ resp.status = 200

\* the response says the models are not loaded: the batch endpoint by the
\* detail of its 500, analyze_video by the summary of its comments_analysis
ReportedNotLoaded ==
    IF resp.status = 200
    THEN /\ handler = "analyze_video"
         /\ resp.body.comments_analysis.summary = "Model not available on server"
    ELSE resp.detail = "Models not loaded on server"

\* C11: when predict_comments fails, its caller reports "models not loaded /
\* model not available" exactly when the vectorizer or the classifier is
\* unset: a failure raised by transform or predict is never reported so, and
\* a missing artifact is never reported as an unexpected failure.
C11_DistinctFailures ==
    (Called /\ out.exc # None) =>
        (ReportedNotLoaded <=> (VECTORIZER = None \/ MODEL = None))

====
